---- MODULE Spec2Model ----
(***************************************************************************)
(* A model of the batch PDF downloader of main.go.                         *)
(*                                                                         *)
(* Go strings are modelled as sequences of one-character strings, so that  *)
(* lowercasing, path.Base, filepath.Ext, the two regular-expression        *)
(* replacements and strings.ReplaceAll are computed character by character *)
(* as the library computes them.  The output directory is a map from file  *)
(* names to what is stored under that name.                                *)
(***************************************************************************)
EXTENDS Integers, Sequences, FiniteSets, TLC

VARIABLES
    pc,            \* main: position in main()
    dirState,      \* main: what is at the path PDFs/ ("absent", "dir", "file")
    finalPDFList,  \* main: the slice finalPDFList
    idx,           \* main: 1-based index of the next entry of the range loop
    fs,            \* main: the entries of the output directory, by file name
    handled,       \* history: the entries the loop body has run for, in order
    hist,          \* history: per handled entry, what its iteration did
    last,          \* history: the last iteration in full (response included)
    sanIn,         \* sanitizer: the URL string handed to urlToFilename
    sanStem,       \* sanitizer: safeFilename before the extension is appended
    cur,           \* sanitizer: the latest output of urlToFilename
    applied,       \* sanitizer: number of applications of urlToFilename so far
    grew,          \* sanitizer: every re-application so far made the string longer
    dslice,        \* deduplicator: the input slice
    dresult,       \* deduplicator: the returned slice
    ddone          \* deduplicator: whether removeDuplicatesFromSlice has run

mainVars == <<pc, dirState, finalPDFList, idx, fs, handled, hist, last>>
sanVars == <<sanIn, sanStem, cur, applied, grew>>
dedupVars == <<dslice, dresult, ddone>>
vars == <<mainVars, sanVars, dedupVars>>

----------------------------------------------------------------------------
(* Characters and strings *)

LowerLetters ==
    {"a", "b", "c", "d", "e", "f", "g", "h", "i", "j", "k", "l", "m",
     "n", "o", "p", "q", "r", "s", "t", "u", "v", "w", "x", "y", "z"}

Digits == {"0", "1", "2", "3", "4", "5", "6", "7", "8", "9"}

\* unicode.ToLower on the ASCII upper-case letters.
UpperToLower ==
    [A |-> "a", B |-> "b", C |-> "c", D |-> "d", E |-> "e", F |-> "f",
     G |-> "g", H |-> "h", I |-> "i", J |-> "j", K |-> "k", L |-> "l",
     M |-> "m", N |-> "n", O |-> "o", P |-> "p", Q |-> "q", R |-> "r",
     S |-> "s", T |-> "t", U |-> "u", V |-> "v", W |-> "w", X |-> "x",
     Y |-> "y", Z |-> "z"]

UpperLetters == DOMAIN UpperToLower

\* The character class [a-z0-9] of nonAlphanumericRegex.
LowerAlnum == LowerLetters \cup Digits

\* strings.ToLower
RECURSIVE ToLower(_)
ToLower(s) ==
    IF s = <<>> THEN <<>>
    ELSE <<IF Head(s) \in UpperLetters THEN UpperToLower[Head(s)] ELSE Head(s)>> \o ToLower(Tail(s))

\* s[i:] of Go, with i 1-based: the suffix starting at position i.
From(s, i) == SubSeq(s, i, Len(s))

\* strings.HasPrefix
HasPrefix(s, p) == Len(s) >= Len(p) /\ SubSeq(s, 1, Len(p)) = p

\* Whether sub occurs in s at position i.
OccursAt(s, sub, i) == i + Len(sub) - 1 <= Len(s) /\ SubSeq(s, i, i + Len(sub) - 1) = sub

\* strings.Contains
Contains(s, sub) == \E i \in 1..(Len(s) + 1) : OccursAt(s, sub, i)

\* strings.Index / strings.LastIndex of a character, 1-based, 0 when absent.
IndexOf(s, c) ==
    IF \E i \in 1..Len(s) : s[i] = c
    THEN CHOOSE i \in 1..Len(s) : s[i] = c /\ \A j \in 1..(i - 1) : s[j] # c
    ELSE 0

LastIndexOf(s, c) ==
    IF \E i \in 1..Len(s) : s[i] = c
    THEN CHOOSE i \in 1..Len(s) : s[i] = c /\ \A j \in (i + 1)..Len(s) : s[j] # c
    ELSE 0

----------------------------------------------------------------------------
(* The filename sanitizer *)

\* path.Base: "" gives ".", trailing slashes are stripped, the text after the
\* last slash is kept, and a path of slashes only gives "/".
RECURSIVE StripTrailingSlashes(_)
StripTrailingSlashes(s) ==
    IF Len(s) > 0 /\ s[Len(s)] = "/"
    THEN StripTrailingSlashes(SubSeq(s, 1, Len(s) - 1))
    ELSE s

getFileNameOnly(content) ==
    IF content = <<>> THEN <<".">>
    ELSE LET p == StripTrailingSlashes(content)
             q == From(p, LastIndexOf(p, "/") + 1)
         IN  IF q = <<>> THEN <<"/">> ELSE q

\* filepath.Ext: scanning back from the end up to the last path separator,
\* the suffix starting at the first dot met; "" when there is none.
getFileExtension(path) ==
    LET lastElem == From(path, LastIndexOf(path, "/") + 1)
        dot == LastIndexOf(lastElem, ".")
    IN  IF dot = 0 THEN <<>> ELSE From(lastElem, dot)

\* nonAlphanumericRegex.ReplaceAllString(s, "_") with the pattern [^a-z0-9]+ :
\* every maximal run of characters outside [a-z0-9] becomes one underscore.
RECURSIVE ReplaceNonAlnumFrom(_, _, _)
ReplaceNonAlnumFrom(s, i, inRun) ==
    IF i > Len(s) THEN <<>>
    ELSE IF s[i] \in LowerAlnum THEN <<s[i]>> \o ReplaceNonAlnumFrom(s, i + 1, FALSE)
    ELSE IF inRun THEN ReplaceNonAlnumFrom(s, i + 1, TRUE)
    ELSE <<"_">> \o ReplaceNonAlnumFrom(s, i + 1, TRUE)

ReplaceNonAlnum(s) == ReplaceNonAlnumFrom(s, 1, FALSE)

\* collapseUnderscoresRegex.ReplaceAllString(s, "_") with the pattern _+ .
RECURSIVE CollapseUnderscoresFrom(_, _, _)
CollapseUnderscoresFrom(s, i, inRun) ==
    IF i > Len(s) THEN <<>>
    ELSE IF s[i] # "_" THEN <<s[i]>> \o CollapseUnderscoresFrom(s, i + 1, FALSE)
    ELSE IF inRun THEN CollapseUnderscoresFrom(s, i + 1, TRUE)
    ELSE <<"_">> \o CollapseUnderscoresFrom(s, i + 1, TRUE)

CollapseUnderscores(s) == CollapseUnderscoresFrom(s, 1, FALSE)

\* strings.CutPrefix(s, "_"), keeping s when the prefix is absent.
CutPrefixUnderscore(s) == IF HasPrefix(s, <<"_">>) THEN From(s, 2) ELSE s

\* strings.ReplaceAll(input, toRemove, ""): one left-to-right pass deleting
\* the non-overlapping occurrences of toRemove found in input.
RECURSIVE RemoveFrom(_, _, _)
RemoveFrom(s, sub, i) ==
    IF i > Len(s) THEN <<>>
    ELSE IF OccursAt(s, sub, i) THEN RemoveFrom(s, sub, i + Len(sub))
    ELSE <<s[i]>> \o RemoveFrom(s, sub, i + 1)

removeSubstring(input, toRemove) == RemoveFrom(input, toRemove, 1)

\* var invalidSubstrings = []string{"_pdf", "_zip"}
invalidSubstrings == << <<"_", "p", "d", "f">>, <<"_", "z", "i", "p">> >>

\* safeFilename of urlToFilename just before the extension is appended.
safeStem(rawURL) ==
    LET lowercaseURL == ToLower(rawURL)
        baseFilename == getFileNameOnly(lowercaseURL)
        s1 == ReplaceNonAlnum(baseFilename)
        s2 == CollapseUnderscores(s1)
        s3 == CutPrefixUnderscore(s2)
        s4 == removeSubstring(s3, invalidSubstrings[1])
    IN  removeSubstring(s4, invalidSubstrings[2])

urlToFilename(rawURL) == safeStem(rawURL) \o getFileExtension(ToLower(rawURL))

----------------------------------------------------------------------------
(* The sanitizer on its own: urlToFilename applied to URL strings, and then
   re-applied to its own output read as a path-only string. *)

\* The URL strings: a scheme, host and directory followed by at most MaxPieces
\* pieces of a final path segment.
MaxPieces == 4

\* How many times urlToFilename is applied in a row.
MaxApply == 3

SanPrefixes ==
    { <<"h", "t", "t", "p", "s", ":", "/", "/", "s", "i", "t", "e", ".", "t", "e", "s", "t", "/", "a", "/">>,
      <<"h", "t", "t", "p", "s", ":", "/", "/", "o", "t", "h", "e", "r", ".", "t", "e", "s", "t", "/", "x", "/">> }

SanPieces ==
    { <<"R", "e", "p", "o", "r", "t">>, <<"d", "o", "c">>,
      <<".", "P", "D", "F">>, <<".", "Z", "I", "P">>, <<".", "t", "x", "t">>,
      <<"?", "v", "=", "1">>,
      <<"_", "p">>, <<"_", "p", "d", "f">>, <<"d", "f">> }

RECURSIVE PieceStrings(_)
PieceStrings(n) ==
    IF n = 0 THEN { <<>> }
    ELSE LET shorter == PieceStrings(n - 1)
         IN  shorter \cup { s \o p : s \in shorter, p \in SanPieces }

SanInputs == { pre \o tail : pre \in SanPrefixes, tail \in PieceStrings(MaxPieces) }

MainIdle ==
    /\ pc = "idle"
    /\ dirState = "dir"
    /\ finalPDFList = <<>>
    /\ idx = 1
    /\ fs = <<>>
    /\ handled = <<>>
    /\ hist = <<>>
    /\ last = <<>>

SanIdle ==
    /\ sanIn = <<>>
    /\ sanStem = <<>>
    /\ cur = <<>>
    /\ applied = 0
    /\ grew = TRUE

DedupIdle ==
    /\ dslice = <<>>
    /\ dresult = <<>>
    /\ ddone = FALSE

InitSan ==
    /\ MainIdle
    /\ DedupIdle
    /\ sanIn \in SanInputs
    /\ sanStem = <<>>
    /\ cur = <<>>
    /\ applied = 0
    /\ grew = TRUE

\* filename := urlToFilename(finalURL)
Sanitize ==
    /\ applied = 0
    /\ sanStem' = safeStem(sanIn)
    /\ cur' = urlToFilename(sanIn)
    /\ applied' = 1
    /\ UNCHANGED <<sanIn, grew, mainVars, dedupVars>>

\* urlToFilename applied to its own previous output.
Resanitize ==
    /\ applied >= 1
    /\ applied < MaxApply
    /\ cur' = urlToFilename(cur)
    /\ applied' = applied + 1
    /\ grew' = (grew /\ Len(urlToFilename(cur)) > Len(cur))
    /\ UNCHANGED <<sanIn, sanStem, mainVars, dedupVars>>

NextSan == Sanitize \/ Resanitize

SpecSan == InitSan /\ [][NextSan]_vars

----------------------------------------------------------------------------
(* The deduplicator *)

\* The range loop of removeDuplicatesFromSlice from position i on: check is
\* the set of keys of the map, out is newReturnSlice.
RECURSIVE DedupLoop(_, _, _, _)
DedupLoop(slice, i, check, out) ==
    IF i > Len(slice) THEN out
    ELSE IF slice[i] \notin check
         THEN DedupLoop(slice, i + 1, check \cup {slice[i]}, Append(out, slice[i]))
         ELSE DedupLoop(slice, i + 1, check, out)

\* A plausible slip: the seen-map is consulted but never written.
removeDuplicatesNeverMarks(slice) == slice

removeDuplicatesFromSlice(slice) == DedupLoop(slice, 1, {}, <<>>)

\* The deduplicator on its own: slices of at most MaxSlice strings.
MaxSlice == 5

DedupStrings == { <<"a">>, <<"b">>, <<"c">>, <<"A">> }

RECURSIVE SlicesUpTo(_)
SlicesUpTo(n) ==
    IF n = 0 THEN { <<>> }
    ELSE LET shorter == SlicesUpTo(n - 1)
         IN  shorter \cup { Append(s, x) : s \in shorter, x \in DedupStrings }

InitDedup ==
    /\ MainIdle
    /\ SanIdle
    /\ dslice \in SlicesUpTo(MaxSlice)
    /\ dresult = <<>>
    /\ ddone = FALSE

\* finalPDFList = removeDuplicatesFromSlice(finalPDFList)
DedupRun ==
    /\ ~ddone
    /\ dresult' = removeDuplicatesFromSlice(dslice)
    /\ ddone' = TRUE
    /\ UNCHANGED <<dslice, mainVars, sanVars>>

NextDedup == DedupRun

SpecDedup == InitDedup /\ [][NextDedup]_vars

----------------------------------------------------------------------------
(* net/url as main.go uses it: url.Parse(...).Hostname() and
   url.ParseRequestURI.  The strings of this model hold no control byte, no
   '@' and no '[', so user information and IPv6 literals are not parsed. *)

HexDigits == Digits \cup {"a", "b", "c", "d", "e", "f", "A", "B", "C", "D", "E", "F"}

\* Characters of a host name that unescape(host, encodeHost) accepts as they are.
HostChars ==
    LowerLetters \cup UpperLetters \cup Digits \cup
    {"-", "_", ".", "~", "!", "$", "&", "'", "(", ")", "*", "+", ",", ";", "=", ":", "<", ">"}

\* unescape: every '%' is followed by two hexadecimal digits.
EscapesOK(s) ==
    \A i \in 1..Len(s) :
        s[i] = "%" => (i + 2 <= Len(s) /\ s[i + 1] \in HexDigits /\ s[i + 2] \in HexDigits)

\* getScheme: [ok, scheme, rest].
RECURSIVE getSchemeFrom(_, _)
getSchemeFrom(rawURL, i) ==
    IF i > Len(rawURL) THEN [ok |-> TRUE, scheme |-> <<>>, rest |-> rawURL]
    ELSE LET c == rawURL[i] IN
         IF c \in LowerLetters \cup UpperLetters THEN getSchemeFrom(rawURL, i + 1)
         ELSE IF c \in Digits \cup {"+", "-", "."} THEN
              IF i = 1 THEN [ok |-> TRUE, scheme |-> <<>>, rest |-> rawURL]
              ELSE getSchemeFrom(rawURL, i + 1)
         ELSE IF c = ":" THEN
              IF i = 1 THEN [ok |-> FALSE, scheme |-> <<>>, rest |-> <<>>]
              ELSE [ok |-> TRUE, scheme |-> SubSeq(rawURL, 1, i - 1), rest |-> From(rawURL, i + 1)]
         ELSE [ok |-> TRUE, scheme |-> <<>>, rest |-> rawURL]

\* validOptionalPort: "" or a colon followed by digits only.
validOptionalPort(port) ==
    port = <<>> \/ (port[1] = ":" /\ \A i \in 2..Len(port) : port[i] \in Digits)

\* parseHost: the port after the last colon is checked, then the characters.
hostOK(host) ==
    /\ LastIndexOf(host, ":") # 0 => validOptionalPort(From(host, LastIndexOf(host, ":")))
    /\ \A i \in 1..Len(host) : host[i] \in HostChars \cup {"%"}
    /\ EscapesOK(host)

\* url.parse(rawURL, viaRequest): [ok, host].
parse(rawURL, viaRequest) ==
    LET failed == [ok |-> FALSE, host |-> <<>>]
        noHost == [ok |-> TRUE, host |-> <<>>]
        sch == getSchemeFrom(rawURL, 1)
        q == IndexOf(sch.rest, "?")
        rest == IF q = 0 THEN sch.rest ELSE SubSeq(sch.rest, 1, q - 1)
        slash == IndexOf(rest, "/")
        segment == IF slash = 0 THEN rest ELSE SubSeq(rest, 1, slash - 1)
        afterSlashes == From(rest, 3)
        cut == IndexOf(afterSlashes, "/")
        authority == IF cut = 0 THEN afterSlashes ELSE SubSeq(afterSlashes, 1, cut - 1)
        path == IF cut = 0 THEN <<>> ELSE From(afterSlashes, cut)
    IN  IF rawURL = <<>> /\ viaRequest THEN failed
        ELSE IF rawURL = <<"*">> THEN noHost
        ELSE IF ~sch.ok THEN failed
        ELSE IF ~HasPrefix(rest, <<"/">>) /\ sch.scheme # <<>> THEN noHost
        ELSE IF ~HasPrefix(rest, <<"/">>) /\ viaRequest THEN failed
        ELSE IF ~HasPrefix(rest, <<"/">>) /\ Contains(segment, <<":">>) THEN failed
        ELSE IF /\ (sch.scheme # <<>> \/ (~viaRequest /\ ~HasPrefix(rest, <<"/", "/", "/">>)))
                /\ HasPrefix(rest, <<"/", "/">>)
             THEN IF hostOK(authority) /\ EscapesOK(path)
                  THEN [ok |-> TRUE, host |-> authority]
                  ELSE failed
        ELSE IF EscapesOK(rest) THEN noHost
        ELSE failed

\* URL.Hostname: the host without its port.
Hostname(host) ==
    IF IndexOf(host, ":") = 0 THEN host ELSE SubSeq(host, 1, IndexOf(host, ":") - 1)

\* url.Parse drops the fragment before parsing.
urlParse(rawURL) ==
    LET h == IndexOf(rawURL, "#")
    IN  parse(IF h = 0 THEN rawURL ELSE SubSeq(rawURL, 1, h - 1), FALSE)

getDomainFromURL(rawURL) ==
    IF ~urlParse(rawURL).ok THEN <<>> ELSE Hostname(urlParse(rawURL).host)

isUrlValid(uri) == parse(uri, TRUE).ok

----------------------------------------------------------------------------
(* main: the lines of valid_pdf.txt, the output directory, the HTTP replies *)

\* remoteDomain := "https://www.klnsh-usaueber.com"
remoteDomain ==
    <<"h", "t", "t", "p", "s", ":", "/", "/", "w", "w", "w", ".", "k", "l", "n", "s", "h", "-",
      "u", "s", "a", "u", "e", "b", "e", "r", ".", "c", "o", "m">>

\* http.StatusOK
StatusOK == 200

\* The lines valid_pdf.txt may hold: a relative path, an absolute URL with a
\* query string, a second relative path with the same file name as the first,
\* and an absolute URL that url.Parse rejects (a space in the host) and whose
\* path url.ParseRequestURI rejects as well (a broken percent escape).
Entries ==
    { <<"/", "a", "/", "R", "e", "p", "o", "r", "t", ".", "P", "D", "F">>,
      <<"h", "t", "t", "p", "s", ":", "/", "/", "o", "t", "h", "e", "r", ".", "t", "e", "s", "t",
        "/", "x", "/", "d", "o", "c", ".", "Z", "I", "P", "?", "v", "=", "1">>,
      <<"/", "b", "/", "r", "e", "p", "o", "r", "t", ".", "p", "d", "f">>,
      <<"h", "t", "t", "p", ":", "/", "/", "b", "a", "d", " ", "h", "o", "s", "t", "/", "%", "z", "z">> }

\* At most MaxLines lines in the input file.
MaxLines == 2

\* A response body is empty or holds MaxBody bytes.
MaxBody == 1

RECURSIVE LinesUpTo(_)
LinesUpTo(n) ==
    IF n = 0 THEN { <<>> }
    ELSE LET shorter == LinesUpTo(n - 1)
         IN  shorter \cup { Append(s, e) : s \in shorter, e \in Entries }

\* Lines 30 to 33 of main: a relative entry gets the base domain prepended.
Resolve(urls) ==
    IF getDomainFromURL(urls) = <<>> THEN remoteDomain \o urls ELSE urls

\* filename := strings.ToLower(urlToFilename(finalURL))
TargetName(finalURL) == ToLower(urlToFilename(finalURL))

\* Resolve, isUrlValid and TargetName tabulated over the entries.
resolved == [e \in Entries |-> Resolve(e)]
valid == [e \in Entries |-> isUrlValid(Resolve(e))]
filenameOf == [e \in Entries |-> TargetName(Resolve(e))]

Filenames == { filenameOf[e] : e \in { x \in Entries : valid[x] } }

\* What the output directory holds under a name: nothing, a subdirectory, a
\* file that was there before the run ("old"), a file this run wrote in full
\* ("new"), or a file this run created and failed to write ("partial").
Regular == {"old", "new", "partial"}

\* The HTTP replies: the GET fails, or a reply with a status, a Content-Type,
\* the number of body bytes io.Copy delivered and whether io.Copy failed.
ContentTypes ==
    { <<"a", "p", "p", "l", "i", "c", "a", "t", "i", "o", "n", "/", "p", "d", "f">>,
      <<"a", "p", "p", "l", "i", "c", "a", "t", "i", "o", "n", "/", "p", "d", "f", ";", " ",
        "c", "h", "a", "r", "s", "e", "t", "=", "b", "i", "n", "a", "r", "y">>,
      <<"t", "e", "x", "t", "/", "h", "t", "m", "l">> }

NoReply == [err |-> TRUE, status |-> 0, ctype |-> <<>>, body |-> 0, readErr |-> FALSE]

Replies ==
    {NoReply} \cup
    [err : {FALSE}, status : {StatusOK, 404}, ctype : ContentTypes,
     body : {0, MaxBody}, readErr : BOOLEAN]

\* What the file system does with os.Create and buf.WriteTo.
DiskOutcomes == {"ok", "createFails", "writeFails"}

\* os.Stat of filepath.Join(outputDir, filename): the directory itself when
\* the name cleans away, nothing when the output directory is not there.
StatTarget(fsys, dirSt, filename) ==
    IF dirSt # "dir" THEN "absent"
    ELSE IF filename \in { <<>>, <<".">> } THEN "dir"
    ELSE fsys[filename]

\* A plausible slip: the existence check always answers false.
fileExistsNever(kind) == FALSE

\* A plausible slip: info.IsDir() instead of !info.IsDir().
fileExistsInverted(kind) == kind = "dir"

\* fileExists: os.Stat succeeded and the entry is not a directory.
fileExists(kind) == kind # "absent" /\ kind # "dir"

\* A plausible slip: the Content-Type is not looked at.
isPDFContentTypeAny(contentType) == TRUE

\* strings.Contains(contentType, "application/pdf")
isPDFContentType(contentType) ==
    Contains(contentType, <<"a", "p", "p", "l", "i", "c", "a", "t", "i", "o", "n", "/", "p", "d", "f">>)

\* isPDFContentType tabulated over the Content-Types of the replies.
acceptedType == [ct \in ContentTypes \cup {<<>>} |-> isPDFContentType(ct)]

\* downloadPDF after the existence check: the GET and what follows it.
\* [requested, toDisk, ret, after]: whether a GET was issued, whether
\* os.Create was reached, the returned boolean and what the target path holds
\* afterwards.
fetch(before, reply, disk) ==
    LET failed == [requested |-> TRUE, toDisk |-> FALSE, ret |-> FALSE, after |-> before] IN
    IF reply.err THEN failed
    ELSE IF reply.status # StatusOK THEN failed
    ELSE IF ~acceptedType[reply.ctype] THEN failed
    ELSE IF reply.readErr THEN failed
    ELSE IF reply.body = 0 THEN failed
    ELSE IF disk = "createFails" \/ before = "dir" THEN [failed EXCEPT !.toDisk = TRUE]
    ELSE IF disk = "writeFails"
         THEN [requested |-> TRUE, toDisk |-> TRUE, ret |-> FALSE, after |-> "partial"]
    ELSE [requested |-> TRUE, toDisk |-> TRUE, ret |-> TRUE, after |-> "new"]

\* A plausible slip: the GET is issued before looking at the disk.
downloadPDFNoSkip(before, dirOK, reply, disk) ==
    fetch(before, reply, IF dirOK THEN disk ELSE "createFails")

\* downloadPDF, given what os.Stat finds at the target path.
downloadPDF(before, dirOK, reply, disk) ==
    IF fileExists(before)
    THEN [requested |-> FALSE, toDisk |-> FALSE, ret |-> FALSE, after |-> before]
    ELSE fetch(before, reply, IF dirOK THEN disk ELSE "createFails")

\* A plausible slip: a failed entry ends the loop (a return where the loop
\* should go on).
nextIndexStopOnFailure(i, ok) == IF ok THEN i + 1 ELSE i + MaxLines

\* for _, urls := range finalPDFList: the next entry, whatever happened.
nextIndex(i, ok) == i + 1

NoCall ==
    [entry |-> <<>>, url |-> <<>>, valid |-> FALSE, before |-> "absent", after |-> "absent",
     requested |-> FALSE, reply |-> NoReply, ret |-> FALSE]

Init ==
    /\ SanIdle
    /\ DedupIdle
    /\ pc = "start"
    /\ dirState \in {"absent", "dir", "file"}
    /\ fs \in [Filenames -> {"absent", "old", "dir"}]
    /\ dirState # "dir" => \A f \in Filenames : fs[f] = "absent"
    /\ finalPDFList = <<>>
    /\ idx = 1
    /\ handled = <<>>
    /\ hist = <<>>
    /\ last = NoCall

\* Lines 21 to 24: create PDFs/ when it is not a directory; os.Mkdir may fail
\* (always when a file of that name is in the way), which is only logged.
EnsureDir ==
    /\ pc = "start"
    /\ \E mkdirOK \in BOOLEAN :
         dirState' = IF dirState = "absent" /\ mkdirOK THEN "dir" ELSE dirState
    /\ pc' = "read"
    /\ UNCHANGED <<finalPDFList, idx, fs, handled, hist, last, sanVars, dedupVars>>

\* readAppendLineByLine: nothing when the file cannot be opened (the scanner
\* then reads from a nil file), else the lines up to the end of the file or
\* up to the line where the scanner fails.
readAppendLineByLine(readable, lines, n) ==
    IF ~readable THEN <<>> ELSE SubSeq(lines, 1, n)

\* Line 26: valid_pdf.txt is missing or unreadable, or holds some lines of
\* which the first n are read.
ReadList ==
    /\ pc = "read"
    /\ \E readable \in BOOLEAN, lines \in LinesUpTo(MaxLines) :
         \E n \in 0..Len(lines) :
           finalPDFList' = readAppendLineByLine(readable, lines, n)
    /\ pc' = "dedup"
    /\ UNCHANGED <<dirState, idx, fs, handled, hist, last, sanVars, dedupVars>>

\* Line 27.
Dedup ==
    /\ pc = "dedup"
    /\ finalPDFList' = removeDuplicatesFromSlice(finalPDFList)
    /\ idx' = 1
    /\ pc' = "loop"
    /\ UNCHANGED <<dirState, fs, handled, hist, last, sanVars, dedupVars>>

\* One iteration of the loop of main: resolve, validate, download.  A reply
\* is drawn only when a GET is issued and a disk failure only when os.Create
\* is reached (NoReply and "ok" stand for the unused draw).
HandleEntry ==
    /\ pc = "loop"
    /\ idx <= Len(finalPDFList)
    /\ LET urls == finalPDFList[idx]
           name == filenameOf[urls]
           before == StatTarget(fs, dirState, name)
       IN  IF ~valid[urls]
           THEN /\ fs' = fs
                /\ last' = [NoCall EXCEPT !.entry = urls, !.url = resolved[urls]]
                /\ hist' = Append(hist, [name |-> name, called |-> FALSE, requested |-> FALSE, left |-> FALSE])
                /\ idx' = nextIndex(idx, FALSE)
           ELSE \E reply \in Replies, disk \in DiskOutcomes :
                  LET r == downloadPDF(before, dirState = "dir", reply, disk)
                  IN  /\ reply # NoReply => r.requested
                      /\ disk # "ok" => r.toDisk
                      /\ fs' = IF r.after # before THEN [fs EXCEPT ![name] = r.after] ELSE fs
                      /\ last' = [entry |-> urls, url |-> resolved[urls], valid |-> TRUE,
                                  before |-> before, after |-> r.after, requested |-> r.requested,
                                  reply |-> reply, ret |-> r.ret]
                      /\ hist' = Append(hist, [name |-> name, called |-> TRUE, requested |-> r.requested,
                                               left |-> r.after \in Regular])
                      /\ idx' = nextIndex(idx, r.ret)
    /\ handled' = Append(handled, finalPDFList[idx])
    /\ UNCHANGED <<pc, dirState, finalPDFList, sanVars, dedupVars>>

\* The range loop is over: main returns.
Exit ==
    /\ pc = "loop"
    /\ idx > Len(finalPDFList)
    /\ pc' = "done"
    /\ UNCHANGED <<dirState, finalPDFList, idx, fs, handled, hist, last, sanVars, dedupVars>>

Next == EnsureDir \/ ReadList \/ Dedup \/ HandleEntry \/ Exit

Spec == Init /\ [][Next]_vars

\* main is one sequential thread and every call it makes returns (the GET has
\* a timeout of three minutes), so a step that can be taken is taken.
FairSpec == Spec /\ WF_vars(Next)

----------------------------------------------------------------------------
(* The properties *)

applicationPdf == <<"a", "p", "p", "l", "i", "c", "a", "t", "i", "o", "n", "/", "p", "d", "f">>

\* The entry starts with letters followed by a colon: it names a scheme.
HasSchemeText(e) ==
    \E i \in 2..Len(e) :
        e[i] = ":" /\ \A j \in 1..(i - 1) : e[j] \in LowerLetters \cup UpperLetters

\* The entry is written scheme://host...: it names a scheme and a host.
IsAbsoluteText(e) ==
    \E i \in 2..Len(e) :
        /\ \A j \in 1..(i - 1) : e[j] \in LowerLetters \cup UpperLetters
        /\ OccursAt(e, <<":", "/", "/">>, i)
        /\ Len(e) >= i + 3
        /\ e[i + 3] # "/"

\* The entry names neither a scheme nor a host: a path.
IsRelativeText(e) == ~HasSchemeText(e) /\ ~HasPrefix(e, <<"/", "/">>)

\* C1: when the target path holds a regular file at the time downloadPDF is
\* called, downloadPDF issues no HTTP request and returns false.
C1_SkipExisting ==
    (last.valid /\ last.before \in Regular) => (~last.requested /\ ~last.ret)

C1_Witness ==
    last.valid /\ last.before \in Regular /\ ~last.requested

\* C2: downloadPDF creates a file at the target path only if the GET
\* succeeded with status 200, a Content-Type containing application/pdf and a
\* body read completely with at least one byte; so a 200 text/html reply and
\* a 200 application/pdf reply with an empty body leave no file.
C2_ValidationGate ==
    (last.valid /\ last.after # last.before) =>
        /\ last.requested
        /\ ~last.reply.err
        /\ last.reply.status = 200
        /\ Contains(last.reply.ctype, applicationPdf)
        /\ ~last.reply.readErr
        /\ last.reply.body >= 1

C2_Witness ==
    /\ last.valid
    /\ last.before = "absent"
    /\ last.after = "new"
    /\ last.reply.ctype # applicationPdf

C5_BatchCompletes == <>(pc = "done" /\ handled = finalPDFList)

C5_Witness ==
    /\ pc = "done"
    /\ Len(handled) >= 2
    /\ handled = finalPDFList
    /\ hist[1].requested
    /\ ~hist[1].left
    /\ hist[2].requested

\* C6: no step changes or removes what the output directory holds under a
\* name, except to add a file under a name that held nothing.
C6_AppendOnly ==
    [][\A f \in DOMAIN fs :
          \/ fs'[f] = fs[f]
          \/ (fs[f] = "absent" /\ fs'[f] \in {"new", "partial"})]_vars

C6_Witness ==
    /\ last.valid
    /\ last.before = "absent"
    /\ last.after \in Regular
    /\ \E f \in DOMAIN fs : fs[f] = "old"

\* C7: a relative entry is handed on as the base domain followed by the
\* entry, an absolute entry is handed on unchanged.
C7_Resolver ==
    Len(handled) >= 1 =>
        /\ IsRelativeText(last.entry) => last.url = remoteDomain \o last.entry
        /\ IsAbsoluteText(last.entry) => last.url = last.entry

\* The first position of x in s.
FirstIndex(s, x) == CHOOSE i \in 1..Len(s) : s[i] = x /\ \A j \in 1..(i - 1) : s[j] # x

\* C8: removeDuplicatesFromSlice returns the distinct strings of its input,
\* each once, in the order of their first occurrence.
C8_DedupFirstOccurrences ==
    ddone =>
        /\ { dresult[i] : i \in 1..Len(dresult) } = { dslice[i] : i \in 1..Len(dslice) }
        /\ \A i, j \in 1..Len(dresult) : i # j => dresult[i] # dresult[j]
        /\ \A i, j \in 1..Len(dresult) :
              i < j => FirstIndex(dslice, dresult[i]) < FirstIndex(dslice, dresult[j])

C8_Witness ==
    /\ ddone
    /\ dslice = << <<"a">>, <<"b">>, <<"a">>, <<"c">>, <<"b">> >>
    /\ dresult = << <<"a">>, <<"b">>, <<"c">> >>

\* The final path segment of u is name.ext?query, with name and ext made of
\* letters and digits.
HasExtAndQuery(u) ==
    LET seg == From(u, LastIndexOf(u, "/") + 1)
        q == IndexOf(seg, "?")
        dot == IndexOf(seg, ".")
        alnum == LowerLetters \cup UpperLetters \cup Digits
    IN  /\ dot > 1
        /\ q > dot + 1
        /\ \A i \in (1..(q - 1)) \ {dot} : seg[i] \in alnum

BeforeQuery(u) == SubSeq(u, 1, IndexOf(u, "?") - 1)

\* C3: for a URL whose final path segment is name.ext?query, urlToFilename
\* returns what it returns for the URL without the query string.
C3_QueryIgnored ==
    (applied = 1 /\ HasExtAndQuery(sanIn)) => cur = urlToFilename(BeforeQuery(sanIn))

\* C9: re-applying urlToFilename to its own output reaches a fixed point: it
\* does not go on growing with every application.
C9_Stabilises ==
    applied = MaxApply => (urlToFilename(cur) = cur \/ ~grew)

\* C10: the stem left by the two removeSubstring passes holds no "_pdf" and
\* no "_zip".
C10_RemovalComplete ==
    applied >= 1 =>
        /\ ~Contains(sanStem, invalidSubstrings[1])
        /\ ~Contains(sanStem, invalidSubstrings[2])

====
